---- MODULE Spec2Model ----
(***************************************************************************)
(* SQL safety-and-schema-conformance validator of Sql_final_metrics.py.    *)
(*                                                                         *)
(* Texts (queries, DDL, issue reports) are TLA+ strings, i.e. sequences of *)
(* characters; the regular expressions of the source are written out as    *)
(* character-level matchers.                                               *)
(***************************************************************************)
EXTENDS Integers, Sequences, FiniteSets, TLC

VARIABLES
    query,            \* query_validator: the `query` argument of the current call
    schema,           \* query_validator: the `current_schema_mapping` argument
    pc,               \* position inside query_validator
    issues,           \* SQLQueryInspector.issues of the call's inspector
    output,           \* output_query_or_error
    facts,            \* what Parser(query) exposed (tables, columns, with_names, aliases)
    cleanedOrder,     \* columns_cleaned_for_validation, in the order list(set(..)) gave
    result,           \* the value returned by query_validator
    escaped,          \* TRUE when an exception left query_validator
    parserCalls,      \* number of Parser(...) constructions in the current call
    conformCalls,     \* number of check_and_clean_columns/validate_columns runs in the call
    calls,            \* number of query_validator calls started so far
    firstCall,        \* the first finished call: its query, schema and verdict
    ddl,              \* generate_table_mapping_from_create_statements: the statements
    stmtIdx,          \* index of the next statement of the loop
    result_mapping,   \* the mapping under construction
    lastStmt,         \* the statement the loop processed last
    inspQuery,        \* a standalone SQLQueryInspector: its query
    inspIssues,       \* ... its issues list
    inspRet,          \* ... the value its last inspect_query() returned
    inspRuns,         \* ... how often inspect_query() ran on it
    cleanRaw,         \* check_and_clean_columns: the columns_raw argument
    cleanCtes,        \* ... the ctes_present argument
    cleanAliases,     \* ... the known_base_table_aliases argument
    cleanNames,       \* ... the known_base_table_names argument
    cleanOut,         \* ... the list it returned
    cleanDone,        \* ... TRUE once it returned
    sql_safety_score,           \* txt2sql_metrics: the safety score
    sql_column_hallucination    \* txt2sql_metrics: the hallucination score

vars == <<query, schema, pc, issues, output, facts, cleanedOrder, result, escaped,
          parserCalls, conformCalls, calls, firstCall,
          ddl, stmtIdx, result_mapping, lastStmt,
          inspQuery, inspIssues, inspRet, inspRuns,
          cleanRaw, cleanCtes, cleanAliases, cleanNames, cleanOut, cleanDone,
          sql_safety_score, sql_column_hallucination>>

validatorVars == <<query, schema, pc, issues, output, facts, cleanedOrder, result, escaped,
                   parserCalls, conformCalls, calls, firstCall>>
ddlVars == <<ddl, stmtIdx, result_mapping, lastStmt>>
inspVars == <<inspQuery, inspIssues, inspRet, inspRuns>>
cleanVars == <<cleanRaw, cleanCtes, cleanAliases, cleanNames, cleanOut, cleanDone>>
metricVars == <<sql_safety_score, sql_column_hallucination>>

-----------------------------------------------------------------------------
(* Characters and strings (Python str, re)                                 *)

Ch(s, i) == SubSeq(s, i, i)

From(s, i) == SubSeq(s, i, Len(s))

CharsOf(s) == {Ch(s, i) : i \in 1..Len(s)}

UpperLetters == "ABCDEFGHIJKLMNOPQRSTUVWXYZ"
LowerLetters == "abcdefghijklmnopqrstuvwxyz"
DigitChars == "0123456789"

\* ASCII order of the characters, for sorted() on str.  (The backquote cannot
\* be written in a TLA+ string; every pattern of the source that names it names
\* the double quote next to it, so texts here quote with the double quote.)
AsciiOrder ==
    "\t\n\r !\"#$%&'()*+,-./0123456789:;<=>?@ABCDEFGHIJKLMNOPQRSTUVWXYZ[\\]^_abcdefghijklmnopqrstuvwxyz{|}~"

Ord == [c \in CharsOf(AsciiOrder) |-> CHOOSE i \in 1..Len(AsciiOrder) : Ch(AsciiOrder, i) = c]

LowerOf == [c \in CharsOf(UpperLetters) |->
               Ch(LowerLetters, CHOOSE i \in 1..26 : Ch(UpperLetters, i) = c)]

\* \s
WsChars == {" ", "\t", "\n", "\r", "\f"}
\* \w
WordChars == CharsOf(UpperLetters) \cup CharsOf(LowerLetters) \cup CharsOf(DigitChars) \cup {"_"}

IsWs(c) == c \in WsChars
IsWord(c) == c \in WordChars

LowerCh(c) == IF c \in DOMAIN LowerOf THEN LowerOf[c] ELSE c

\* str.lower()
RECURSIVE Lower(_)
Lower(s) ==
    IF Len(s) <= 1 THEN LowerCh(s)
    ELSE LET h == Len(s) \div 2 IN Lower(SubSeq(s, 1, h)) \o Lower(SubSeq(s, h + 1, Len(s)))

\* str.isdigit()
IsDigit(s) == s # "" /\ \A i \in 1..Len(s) : Ch(s, i) \in CharsOf(DigitChars)

\* the literal p occurs in s at index i
At(s, i, p) == i >= 1 /\ i + Len(p) - 1 <= Len(s) /\ SubSeq(s, i, i + Len(p) - 1) = p

\* p in s
Contains(s, p) == \E i \in 1..(Len(s) + 1) : At(s, i, p)

\* \b between s[i-1] and s[i]
Boundary(s, i) ==
    LET before == i > 1 /\ i - 1 <= Len(s) /\ IsWord(Ch(s, i - 1))
        after  == i >= 1 /\ i <= Len(s) /\ IsWord(Ch(s, i))
    IN  before # after

\* \bW\b matches at i (s and w in one case)
WordAt(s, i, w) == At(s, i, w) /\ Boundary(s, i) /\ Boundary(s, i + Len(w))

\* re.search(r'\bW\b', s, re.IGNORECASE)
SearchWord(s, w) == LET ls == Lower(s) lw == Lower(w) IN \E i \in 1..Len(s) : WordAt(ls, i, lw)

Min(S) == CHOOSE x \in S : \A y \in S : x <= y
Max(S) == CHOOSE x \in S : \A y \in S : x >= y

\* index after the longest run of characters of set cs starting at i
SkipSet(s, i, cs) ==
    LET stops == {j \in i..Len(s) : Ch(s, j) \notin cs}
    IN  IF stops # {} THEN Min(stops) ELSE IF i > Len(s) THEN i ELSE Len(s) + 1

\* index of the first non-whitespace character at or after i (Len(s)+1 when none)
SkipWs(s, i) == SkipSet(s, i, WsChars)

\* str.strip()
Strip(s) ==
    LET keep == {j \in 1..Len(s) : ~IsWs(Ch(s, j))}
    IN  IF keep = {} THEN "" ELSE SubSeq(s, Min(keep), Max(keep))

\* sep.join(list)
RECURSIVE Join(_, _)
Join(sep, l) ==
    IF l = <<>> THEN ""
    ELSE IF Len(l) = 1 THEN l[1]
    ELSE l[1] \o sep \o Join(sep, Tail(l))

\* a < b for str
RECURSIVE StrLess(_, _)
StrLess(a, b) ==
    IF b = "" THEN FALSE
    ELSE IF a = "" THEN TRUE
    ELSE IF Ch(a, 1) = Ch(b, 1) THEN StrLess(From(a, 2), From(b, 2))
    ELSE Ord[Ch(a, 1)] < Ord[Ch(b, 1)]

\* sorted(set_of_str)
RECURSIVE SortedSeq(_)
SortedSeq(S) ==
    IF S = {} THEN <<>>
    ELSE LET m == CHOOSE x \in S : \A y \in S \ {x} : StrLess(x, y)
         IN  <<m>> \o SortedSeq(S \ {m})

Range(l) == {l[i] : i \in 1..Len(l)}

-----------------------------------------------------------------------------
(* SQLQueryInspector.inspect_query                                         *)

\* re.match(r'\s*SELECT', q, re.IGNORECASE | re.DOTALL)
StartsWithSelect(q) == At(Lower(q), SkipWs(q, 1), "select")

\* re.match(r'\s*WITH\s+.*?\s+AS\s*\(.*?\)\s*SELECT', q, re.IGNORECASE | re.DOTALL)
StartsWithCte(q) ==
    LET lq == Lower(q)
        w  == SkipWs(q, 1)
    IN  /\ At(lq, w, "with")
        /\ w + 4 <= Len(q) /\ IsWs(Ch(q, w + 4))
        /\ \E p \in (w + 6)..Len(q) :
              /\ IsWs(Ch(q, p - 1))
              /\ At(lq, p, "as")
              /\ LET o == SkipWs(q, p + 2)
                 IN  /\ At(q, o, "(")
                     /\ \E c \in (o + 1)..Len(q) :
                           At(q, c, ")") /\ At(lq, SkipWs(q, c + 1), "select")

disallowed_keywords ==
    <<"DROP", "DELETE", "TRUNCATE", "UPDATE", "INSERT", "ALTER", "CREATE", "GRANT", "REVOKE">>

DisallowedIssue(keyword) == "Potential disallowed operation detected: '" \o keyword \o "'."

\* the issues of the loop over disallowed_keywords, from keyword k on
RECURSIVE DisallowedIssues(_, _)
DisallowedIssues(q, k) ==
    IF k > Len(disallowed_keywords) THEN <<>>
    ELSE (IF SearchWord(q, disallowed_keywords[k])
          THEN <<DisallowedIssue(disallowed_keywords[k])>> ELSE <<>>)
         \o DisallowedIssues(q, k + 1)

\* first index where the literal p occurs in s ignoring case, 0 when none
FirstAt(s, p) ==
    LET ls == Lower(s)
        lp == Lower(p)
        hits == {i \in 1..Len(s) : At(ls, i, lp)}
    IN  IF hits = {} THEN 0 ELSE Min(hits)

\* re.search(r'exec(\s|\()', q, re.IGNORECASE): the matched text, "" when none
ExecMatch(q) ==
    LET lq == Lower(q)
        Hit(i) == At(lq, i, "exec") /\ i + 4 <= Len(q)
                  /\ (IsWs(Ch(q, i + 4)) \/ Ch(q, i + 4) = "(")
        hits == {i \in 1..Len(q) : Hit(i)}
    IN  IF hits = {} THEN "" ELSE SubSeq(q, Min(hits), Min(hits) + 4)

\* re.search(r';\s*--', q): the matched text, "" when none
SemicolonCommentMatch(q) ==
    LET Hit(i) == At(q, i, ";") /\ At(q, SkipWs(q, i + 1), "--")
        hits == {i \in 1..Len(q) : Hit(i)}
    IN  IF hits = {} THEN "" ELSE SubSeq(q, Min(hits), SkipWs(q, Min(hits) + 1) + 1)

\* re.search of a plain pattern: the matched text, "" when none
PlainMatch(q, p) ==
    LET i == FirstAt(q, p) IN IF i = 0 THEN "" ELSE SubSeq(q, i, i + Len(p) - 1)

\* match.group(0) for each entry of unsafe_keywords, in the order of the list
UnsafeMatches(q) ==
    <<PlainMatch(q, "xp_cmdshell"), ExecMatch(q), PlainMatch(q, "sp_"),
      PlainMatch(q, "xp_"), SemicolonCommentMatch(q)>>

UnsafeIssue(actual_keyword) == "Potentially unsafe SQL pattern '" \o actual_keyword \o "' detected."

RECURSIVE UnsafeIssuesFrom(_, _)
UnsafeIssuesFrom(ms, k) ==
    IF k > Len(ms) THEN <<>>
    ELSE (IF ms[k] # "" THEN <<UnsafeIssue(Strip(ms[k]))>> ELSE <<>>)
         \o UnsafeIssuesFrom(ms, k + 1)

UnsafeIssues(q) == UnsafeIssuesFrom(UnsafeMatches(q), 1)

\* re.search(r'\bORDER\s+BY\b', q, re.IGNORECASE)
HasOrderBy(q) ==
    LET lq == Lower(q)
    IN  \E i \in 1..Len(q) :
           /\ At(lq, i, "order") /\ Boundary(lq, i)
           /\ i + 5 <= Len(q) /\ IsWs(Ch(q, i + 5))
           /\ LET b == SkipWs(q, i + 5) IN At(lq, b, "by") /\ Boundary(lq, b + 2)

LimitIssue == "Use of LIMIT/OFFSET without ORDER BY may result in unpredictable results."

LimitWithoutOrder(q) == (SearchWord(q, "LIMIT") \/ SearchWord(q, "OFFSET")) /\ ~HasOrderBy(q)

\* the lookahead \s*(--.*)?$ succeeds at index k of s
SemicolonTailOk(s, k) ==
    LET EndAt(j) == j = Len(s) + 1 \/ (j = Len(s) /\ Ch(s, j) = "\n")
        n == SkipWs(s, k)
    IN  \/ \E j \in k..n : EndAt(j)
        \/ /\ At(s, n, "--")
           /\ \E j \in (n + 2)..(Len(s) + 1) :
                 EndAt(j) /\ \A m \in (n + 2)..(j - 1) : Ch(s, m) # "\n"

\* re.search(r';(?!\s*(--.*)?$)', self.query.strip())
SemicolonMisuse(q) ==
    LET s == Strip(q) IN \E i \in 1..Len(s) : Ch(s, i) = ";" /\ ~SemicolonTailOk(s, i + 1)

SemicolonIssue == "Avoid the use of semicolons (;) except possibly at the very end of the query."

\* the loop over self.issues that sets is_already_flagged_as_unsafe_semicolon_comment
AlreadyFlagged(iss) ==
    \E k \in 1..Len(iss) :
        Contains(iss[k], ";\\s*--") /\ Contains(iss[k], "Potentially unsafe SQL pattern")

\* (?!\s+(ON|USING)\b) fails at index i of s: whitespace, then ON or USING, then \b
FollowedByOnUsing(s, i) ==
    LET ls == Lower(s)
        n  == SkipWs(s, i)
    IN  /\ n > i
        /\ \/ At(ls, n, "on") /\ Boundary(ls, n + 2)
           \/ At(ls, n, "using") /\ Boundary(ls, n + 5)

\* join_pattern can match with its JOIN at index i of s (ls is s in lower case)
JoinStartsAt(s, ls, i) ==
    /\ At(ls, i, "join") /\ Boundary(ls, i)
    /\ i + 4 <= Len(s) /\ IsWs(Ch(s, i + 4))
    /\ LET a == SkipWs(s, i + 4) IN a <= Len(s) /\ Ch(s, a) \in WordChars \cup {"."}

\* index of the last character of the match of join_pattern whose JOIN is at i:
\* group 1 takes the whole name; group 2 (\s+\w+)? takes the next word when
\* there is one; if the lookahead then sees ON/USING the engine backtracks,
\* first giving up the last character of that word, then the group itself
JoinMatchEnd(s, i) ==
    LET a == SkipWs(s, i + 4)
        b == SkipSet(s, a, WordChars \cup {"."}) - 1
        c == SkipWs(s, b + 1)
        d == SkipSet(s, c, WordChars) - 1
        hasGroup2 == c > b + 1 /\ d >= c
    IN  IF ~hasGroup2 THEN b
        ELSE IF ~FollowedByOnUsing(s, d + 1) THEN d
        ELSE IF d > c THEN d - 1
        ELSE b

\* index where the first match of join_pattern starts, 0 when re.findall is empty
FirstJoin(s) ==
    LET ls == Lower(s)
        starts == {i \in 1..Len(s) : JoinStartsAt(s, ls, i)}
    IN  IF starts = {} THEN 0 ELSE Min(starts)

\* re.search(r'\bCROSS\s+JOIN\b', q, re.IGNORECASE)
HasCrossJoin(q) ==
    LET lq == Lower(q)
    IN  \E i \in 1..Len(q) :
           /\ At(lq, i, "cross") /\ Boundary(lq, i)
           /\ i + 5 <= Len(q) /\ IsWs(Ch(q, i + 5))
           /\ LET b == SkipWs(q, i + 5) IN At(lq, b, "join") /\ Boundary(lq, b + 4)

\* substring_after_join cut at the next \bJOIN\b
SearchArea(after) ==
    LET la == Lower(after)
        joins == {i \in 1..Len(after) : WordAt(la, i, "join")}
    IN  IF joins = {} THEN after ELSE SubSeq(after, 1, Min(joins) - 1)

CartesianIssue ==
    "Use of JOIN without an ON/USING clause may result in a Cartesian product. Specify join conditions or use CROSS JOIN."

\* lines 120-130: the Cartesian-product check fires
CartesianJoin(q) ==
    LET i == FirstJoin(q)
    IN  /\ i # 0
        /\ ~HasCrossJoin(q)
        /\ LET area == SearchArea(From(q, JoinMatchEnd(q, i) + 1))
           IN  ~(SearchWord(area, "ON") \/ SearchWord(area, "USING"))

UnionIssue == "UNION queries detected. Ensure column counts and types match in each SELECT."

OnlySelectIssue == "Only SELECT statements or CTEs (WITH...SELECT) are allowed."

\* self.issues after inspect_query() ran on an inspector whose issues were iss
InspectIssues(q, iss) ==
    LET i1 == iss \o (IF ~(StartsWithSelect(q) \/ StartsWithCte(q))
                      THEN <<OnlySelectIssue>> ELSE <<>>)
        i2 == i1 \o DisallowedIssues(q, 1)
        i3 == i2 \o UnsafeIssues(q)
        i4 == i3 \o (IF LimitWithoutOrder(q) THEN <<LimitIssue>> ELSE <<>>)
        i5 == i4 \o (IF SemicolonMisuse(q) /\ ~AlreadyFlagged(i4)
                     THEN <<SemicolonIssue>> ELSE <<>>)
        i6 == i5 \o (IF CartesianJoin(q) THEN <<CartesianIssue>> ELSE <<>>)
    IN  i6 \o (IF SearchWord(q, "UNION") THEN <<UnionIssue>> ELSE <<>>)

RECURSIVE Bulleted(_)
Bulleted(iss) == IF iss = <<>> THEN <<>> ELSE <<"- " \o Head(iss)>> \o Bulleted(Tail(iss))

\* lines 135-139: the value inspect_query() returns when self.issues is iss
InspectReturn(q, iss) ==
    IF iss # <<>>
    THEN "Detected issues while validating SQL query:\n" \o Join("\n", Bulleted(iss))
    ELSE q

-----------------------------------------------------------------------------
(* agg_pattern, check_and_clean_columns, validate_columns                  *)

AggNames == {"count", "sum", "avg", "min", "max"}

\* agg_pattern.match(c):
\* ^(COUNT|SUM|AVG|MIN|MAX)\s*\(\s*(?:\*|\w+|\bDISTINCT\b\s+\w+)\s*\), re.IGNORECASE
AggMatch(c) ==
    LET lc == Lower(c)
        ClosesAt(i) == At(c, SkipWs(c, i), ")")
    IN  \E n \in AggNames :
           /\ At(lc, 1, n)
           /\ LET o == SkipWs(c, Len(n) + 1)
                  a == SkipWs(c, o + 1)
                  b == SkipSet(c, a, WordChars)
                  w == SkipWs(c, b)
                  e == SkipSet(c, w, WordChars)
              IN  /\ At(c, o, "(")
                  /\ \/ At(c, a, "*") /\ ClosesAt(a + 1)
                     \/ b > a /\ ClosesAt(b)
                     \/ SubSeq(lc, a, b - 1) = "distinct" /\ w > b /\ e > w /\ ClosesAt(e)

\* re.match(r'^\w+\(\s*\)$', c)
ZeroArgCall(c) ==
    LET b == SkipSet(c, 1, WordChars)
        e == SkipWs(c, b + 1)
    IN  /\ b > 1 /\ At(c, b, "(")
        /\ \E j \in (b + 1)..e :
              At(c, j, ")") /\ (j = Len(c) \/ (j = Len(c) - 1 /\ Ch(c, Len(c)) = "\n"))

\* index of the first "." of s, 0 when none
FirstDot(s) ==
    LET dots == {i \in 1..Len(s) : Ch(s, i) = "."} IN IF dots = {} THEN 0 ELSE Min(dots)

\* s.split('.')[-1]
RECURSIVE LastSegment(_)
LastSegment(s) == LET i == FirstDot(s) IN IF i = 0 THEN s ELSE LastSegment(From(s, i + 1))

\* lines 146-163: cleaned_columns_for_validation, the list before list(set(..))
RECURSIVE CleanedList(_, _, _)
CleanedList(columns_raw, ctes_present, known_prefixes) ==
    IF columns_raw = <<>> THEN <<>>
    ELSE LET col_raw == Head(columns_raw)
             dot == FirstDot(col_raw)
             rest == CleanedList(Tail(columns_raw), ctes_present, known_prefixes)
         IN  IF AggMatch(col_raw) THEN rest
             ELSE IF ctes_present
             THEN (IF dot # 0 /\ Lower(SubSeq(col_raw, 1, dot - 1)) \in known_prefixes
                   THEN <<Lower(From(col_raw, dot + 1))>> ELSE <<>>) \o rest
             ELSE IF dot # 0 THEN <<Lower(LastSegment(col_raw))>> \o rest
             ELSE IF col_raw # "*" THEN <<Lower(col_raw)>> \o rest
             ELSE rest

\* check_and_clean_columns: the elements of the returned list(set(..))
check_and_clean_columns(columns_raw, ctes_present, known_base_table_aliases, known_base_table_names) ==
    Range(CleanedList(columns_raw, ctes_present,
                      known_base_table_aliases \cup known_base_table_names))

\* the orders in which list(set(..)) may hand out the elements of S
Orderings(S) ==
    {f \in [1..Cardinality(S) -> S] : \A i, j \in 1..Cardinality(S) : f[i] = f[j] => i = j}

RECURSIVE LowerAll(_)
LowerAll(l) == IF l = <<>> THEN <<>> ELSE <<Lower(Head(l))>> \o LowerAll(Tail(l))

\* lines 171-176: unknown_tables, in first-seen order
RECURSIVE UnknownTables(_, _, _)
UnknownTables(tables_lower, mapping, seen) ==
    IF tables_lower = <<>> THEN seen
    ELSE LET t == Head(tables_lower)
         IN  UnknownTables(Tail(tables_lower), mapping,
                           IF t \notin DOMAIN mapping /\ t \notin Range(seen)
                           THEN Append(seen, t) ELSE seen)

\* lines 168-173: valid_columns_for_query
ValidColumns(tables_lower, mapping) ==
    {"*"} \cup UNION {Range(LowerAll(mapping[t])) : t \in Range(tables_lower) \cap DOMAIN mapping}

UndefinedTablesMessage(unknown_tables) ==
    "Query references undefined tables: " \o Join(", ", SortedSeq(Range(unknown_tables)))

InvalidColumnsMessage(invalid, tables) ==
    "Columns [" \o Join(", ", SortedSeq(invalid))
        \o "] are not defined for the referenced tables ["
        \o Join(", ", SortedSeq(tables)) \o "]"

\* the message of line 191, built from invalid_columns as a list
ColumnsMessageUnsorted(invalid_columns, tables_lower) ==
    "Columns [" \o Join(", ", invalid_columns)
        \o "] are not defined for the referenced tables ["
        \o Join(", ", SortedSeq(Range(tables_lower))) \o "]"

\* the message of lines 189-191
ColumnsMessage(invalid_columns, tables_lower) ==
    InvalidColumnsMessage(Range(invalid_columns), Range(tables_lower))

\* validate_columns: <<is_valid, issues>>
validate_columns(extracted_tables, cleaned_columns_for_validation, table_column_mapping) ==
    LET extracted_tables_lower == LowerAll(extracted_tables)
        valid_columns_for_query == ValidColumns(extracted_tables_lower, table_column_mapping)
        unknown_tables == UnknownTables(extracted_tables_lower, table_column_mapping, <<>>)
        invalid_columns ==
            SelectSeq(cleaned_columns_for_validation,
                      LAMBDA col : col \notin valid_columns_for_query /\ col # "*")
    IN  IF unknown_tables # <<>>
        THEN <<FALSE, <<UndefinedTablesMessage(unknown_tables)>>>>
        ELSE IF invalid_columns # <<>>
        THEN <<FALSE, <<ColumnsMessage(invalid_columns, extracted_tables_lower)>>>>
        ELSE <<TRUE, <<>>>>

-----------------------------------------------------------------------------
(* generate_table_mapping_from_create_statements                           *)

\* the quoting characters of [`"\[\]]
QuoteChars == {"\"", "[", "]"}
\* [`"\[\w\.]
TableNameChars == WordChars \cup {"\"", "[", "."}
\* [`"\[\w]
IdentChars == WordChars \cup {"\"", "["}

\* index of the first occurrence of character c in s at or after i, 0 when none
IndexFrom(s, c, i) ==
    LET hits == {j \in i..Len(s) : Ch(s, j) = c} IN IF hits = {} THEN 0 ELSE Min(hits)

\* index of the last occurrence of character c in s at or before i, 0 when none
LastIndex(s, c, i) ==
    LET hits == {j \in 1..i : Ch(s, j) = c} IN IF hits = {} THEN 0 ELSE Max(hits)

\* s.split(c)
RECURSIVE Split(_, _)
Split(s, c) ==
    LET i == IndexFrom(s, c, 1)
    IN  IF i = 0 THEN <<s>> ELSE <<SubSeq(s, 1, i - 1)>> \o Split(From(s, i + 1), c)

\* re.sub(r'[`"\[\]]', '', s)
RECURSIVE StripQuotes(_)
StripQuotes(s) ==
    IF Len(s) <= 1 THEN (IF s \in QuoteChars THEN "" ELSE s)
    ELSE LET h == Len(s) \div 2
         IN  StripQuotes(SubSeq(s, 1, h)) \o StripQuotes(SubSeq(s, h + 1, Len(s)))

\* index after KW\s+ when the keyword kw (lower case) and whitespace are at i, else 0
KeywordWs(s, i, kw) ==
    IF i # 0 /\ At(Lower(s), i, kw) /\ i + Len(kw) <= Len(s) /\ IsWs(Ch(s, i + Len(kw)))
    THEN SkipWs(s, i + Len(kw)) ELSE 0

\* line 16, create_match.group(1): the name the CREATE header captures, "" when
\* the header does not match
CreateMatch(statement) ==
    LET c  == KeywordWs(statement, SkipWs(statement, 1), "create")
        r  == KeywordWs(statement, KeywordWs(statement, c, "or"), "replace")
        k  == IF r # 0 THEN r ELSE c
        t  == IF KeywordWs(statement, k, "table") # 0 THEN KeywordWs(statement, k, "table")
              ELSE KeywordWs(statement, k, "view")
        e  == KeywordWs(statement, KeywordWs(statement, KeywordWs(statement, t, "if"), "not"),
                        "exists")
        n  == IF e # 0 /\ SkipSet(statement, e, TableNameChars) > e THEN e ELSE t
    IN  IF t = 0 THEN "" ELSE SubSeq(statement, n, SkipSet(statement, n, TableNameChars) - 1)

\* lines 22-25
NormalizeTableName(table_name) == Lower(StripQuotes(LastSegment(table_name)))

\* line 29: \bAS\b\s*\(\s*SELECT\s+ matches with its AS at index i (ls is the
\* statement in lower case)
ViewHeadAt(statement, ls, i) ==
    LET o == SkipWs(statement, i + 2)
        p == SkipWs(statement, o + 1)
    IN  /\ WordAt(ls, i, "as") /\ At(statement, o, "(") /\ At(ls, p, "select")
        /\ SkipWs(statement, p + 6) > p + 6

\* line 29: (.*?)(?:\bFROM\b|\);?|$) from index c0 on: the text group 1 captures
ViewSelectList(statement, ls, c0) ==
    LET stops == {e \in c0..Len(statement) :
                     \/ WordAt(ls, e, "from")
                     \/ Ch(statement, e) = ")"
                     \/ (e = Len(statement) /\ Ch(statement, e) = "\n")}
    IN  SubSeq(statement, c0, (IF stops = {} THEN Len(statement) + 1 ELSE Min(stops)) - 1)

\* line 29: re.search over the statement, <<matched, group(1)>>
ViewSelectMatch(statement) ==
    LET ls == Lower(statement)
        heads == {i \in 1..Len(statement) : ViewHeadAt(statement, ls, i)}
    IN  IF heads = {} THEN <<FALSE, "">>
        ELSE LET o == SkipWs(statement, Min(heads) + 2)
                 p == SkipWs(statement, o + 1)
             IN  <<TRUE, ViewSelectList(statement, ls, SkipWs(statement, p + 6))>>

\* line 37: alias_match.group(1) of re.search(r'\bAS\b\s+([`"\[\w]+)', col), "" when none
AliasMatch(col) ==
    LET lc == Lower(col)
        Hit(i) == /\ WordAt(lc, i, "as")
                  /\ SkipWs(col, i + 2) > i + 2
                  /\ SkipSet(col, SkipWs(col, i + 2), IdentChars) > SkipWs(col, i + 2)
        hits == {i \in 1..Len(col) : Hit(i)}
    IN  IF hits = {} THEN ""
        ELSE LET a == SkipWs(col, Min(hits) + 2)
             IN  SubSeq(col, a, SkipSet(col, a, IdentChars) - 1)

\* line 43: re.sub(r'.*\(|\).*', '', s), scanning from index i
RECURSIVE SubCallWrapper(_, _)
SubCallWrapper(s, i) ==
    IF i > Len(s) THEN ""
    ELSE LET nl  == IndexFrom(s, "\n", i)
             eol == IF nl = 0 THEN Len(s) + 1 ELSE nl
             lp  == LastIndex(s, "(", eol - 1)
         IN  IF lp >= i THEN SubCallWrapper(s, lp + 1)
             ELSE IF Ch(s, i) = ")" THEN SubCallWrapper(s, eol)
             ELSE Ch(s, i) \o SubCallWrapper(s, i + 1)

\* lines 36-45: the name one entry of a view's select list contributes
ViewColumnName(col_raw) ==
    LET col == Strip(col_raw)
        alias == AliasMatch(col)
        parts == Split(col, ".")
    IN  Lower(StripQuotes(
            IF alias # "" THEN alias
            ELSE Strip(SubCallWrapper(Strip(parts[Len(parts)]), 1))))

\* lines 34-47: columns after the loop over col_list
RECURSIVE ViewColumns(_, _)
ViewColumns(col_list, columns) ==
    IF col_list = <<>> THEN columns
    ELSE LET col_name == ViewColumnName(Head(col_list))
         IN  ViewColumns(Tail(col_list),
                         IF col_name # "" /\ col_name \notin Range(columns) /\ col_name # "*"
                         THEN Append(columns, col_name) ELSE columns)

\* line 49: columns_match.group(1), <<FALSE, "">> when there is no match
ColumnsMatch(statement) ==
    LET o == IndexFrom(statement, "(", 1)
        c == LastIndex(statement, ")", Len(statement))
    IN  IF o # 0 /\ c > o THEN <<TRUE, Strip(SubSeq(statement, o + 1, c - 1))>>
        ELSE <<FALSE, "">>

\* lines 56-58: paren_level once the loop has read columns_def[1..i]
ParenLevel(columns_def, i) ==
    Cardinality({j \in 1..i : Ch(columns_def, j) = "("})
        - Cardinality({j \in 1..i : Ch(columns_def, j) = ")"})

\* line 60
SplitsAt(columns_def, i) == Ch(columns_def, i) = "," /\ ParenLevel(columns_def, i) = 0

\* lines 52-67: col_defs, the loop having started a fresh current_def at index i
RECURSIVE SplitTopLevel(_, _)
SplitTopLevel(columns_def, i) ==
    LET cuts == {j \in i..Len(columns_def) : SplitsAt(columns_def, j)}
    IN  IF cuts = {}
        THEN (IF Strip(From(columns_def, i)) # "" THEN <<Strip(From(columns_def, i))>> ELSE <<>>)
        ELSE <<Strip(SubSeq(columns_def, i, Min(cuts) - 1))>>
                 \o SplitTopLevel(columns_def, Min(cuts) + 1)

\* line 70: re.match(r'\s*(CONSTRAINT|PRIMARY\s+KEY|FOREIGN\s+KEY|UNIQUE|CHECK|INDEX)', col_def)
IsConstraint(col_def) ==
    LET lc == Lower(col_def)
        i  == SkipWs(col_def, 1)
        TwoWords(a, b) == /\ At(lc, i, a) /\ i + Len(a) <= Len(col_def)
                          /\ IsWs(Ch(col_def, i + Len(a)))
                          /\ At(lc, SkipWs(col_def, i + Len(a)), b)
    IN  \/ \E kw \in {"constraint", "unique", "check", "index"} : At(lc, i, kw)
        \/ TwoWords("primary", "key")
        \/ TwoWords("foreign", "key")

\* lines 69-79: columns after the loop over col_defs
RECURSIVE TableColumns(_, _)
TableColumns(col_defs, columns) ==
    IF col_defs = <<>> THEN columns
    ELSE LET col_def == Head(col_defs)
             a == SkipWs(col_def, 1)
             b == SkipSet(col_def, a, IdentChars)
             col_name == Lower(StripQuotes(SubSeq(col_def, a, b - 1)))
         IN  TableColumns(Tail(col_defs),
                          IF ~IsConstraint(col_def) /\ b > a /\ col_name \notin Range(columns)
                          THEN Append(columns, col_name) ELSE columns)

\* lines 27-79: the columns list of one statement
StatementColumns(statement) ==
    LET view == ViewSelectMatch(statement)
        cols == ColumnsMatch(statement)
    IN  IF view[1] THEN ViewColumns(Split(Strip(view[2]), ","), <<"*">>)
        ELSE IF cols[1] THEN TableColumns(SplitTopLevel(cols[2], 1), <<"*">>)
        ELSE <<"*">>

\* a store that keeps the entry a key already has
PutKeepingFirst(m, k, v) == [x \in DOMAIN m \cup {k} |-> IF x \in DOMAIN m THEN m[x] ELSE v]

\* m[k] = v for a dict
Put(m, k, v) == [x \in DOMAIN m \cup {k} |-> IF x = k THEN v ELSE m[x]]

\* an extractor that stores every list, the bare <<"*">> included
KeepsEveryEntry(columns) == Len(columns) > 0

\* line 81
KeepsEntry(columns) == Len(columns) > 1

\* lines 12-82: one iteration of the loop, result_mapping after it
ProcessStatement(mapping, raw_statement) ==
    LET statement == Strip(raw_statement)
        name == CreateMatch(statement)
        columns == StatementColumns(statement)
    IN  IF statement = "" \/ name = "" THEN mapping
        ELSE IF KeepsEntry(columns) THEN Put(mapping, NormalizeTableName(name), columns)
        ELSE mapping

\* the loop from statement i on
RECURSIVE ProcessAll(_, _, _)
ProcessAll(mapping, statements, i) ==
    IF i > Len(statements) THEN mapping
    ELSE ProcessAll(ProcessStatement(mapping, statements[i]), statements, i + 1)

\* generate_table_mapping_from_create_statements(create_statements)
generate_table_mapping_from_create_statements(create_statements) ==
    ProcessAll(<<>>, Split(create_statements, ";"), 1)

-----------------------------------------------------------------------------
(* Inputs of the validator                                                 *)

\* how many query_validator calls one behaviour makes
MaxCalls == 2

\* the schema texts the mappings are extracted from
DdlNone ==
    ""

DdlCustomers ==
    "CREATE TABLE customers(customer_id INT, first_name VARCHAR(50), email VARCHAR(100));"

DdlShop ==
    DdlCustomers
        \o "\nCREATE TABLE orders (order_id INT PRIMARY KEY, customer_id INT NOT NULL, total_amount DECIMAL(12, 2), FOREIGN KEY (customer_id) REFERENCES customers(customer_id));"

SchemaTexts == {DdlNone, DdlCustomers, DdlShop}

\* the mappings query_validator is called with (line 332 builds them)
Schemas == {generate_table_mapping_from_create_statements(d) : d \in SchemaTexts}

\* Parser(query) returned without raising
NoError == [raised |-> FALSE, type |-> "", parse |-> FALSE, msg |-> ""]

\* The queries, each with what sql_metadata.Parser exposes for its text: tables,
\* columns, with_names, tables_aliases, or the exception it raises (its class,
\* whether it reports a failure to parse, its message).
QAccepted ==
    [text |-> "SELECT first_name, email FROM customers;",
     tables |-> <<"customers">>,
     columns |-> <<"first_name", "email">>,
     with_names |-> <<>>, tables_aliases |-> <<>>,
     error |-> NoError]

QBadColumn ==
    [text |-> "SELECT customer_id, discount_rate FROM customers;",
     tables |-> <<"customers">>,
     columns |-> <<"customer_id", "discount_rate">>,
     with_names |-> <<>>, tables_aliases |-> <<>>,
     error |-> NoError]

QBadTable ==
    [text |-> "SELECT * FROM inventory;",
     tables |-> <<"inventory">>,
     columns |-> <<"*">>,
     with_names |-> <<>>, tables_aliases |-> <<>>,
     error |-> NoError]

QDrop ==
    [text |-> "SELECT * FROM customers; DROP TABLE customers;",
     tables |-> <<"customers">>,
     columns |-> <<"*">>,
     with_names |-> <<>>, tables_aliases |-> <<>>,
     error |-> NoError]

QCartesian ==
    [text |-> "SELECT a.id FROM t1 a JOIN t2 b;",
     tables |-> <<"t1", "t2">>,
     columns |-> <<"t1.id">>,
     with_names |-> <<>>, tables_aliases |-> (("a" :> "t1") @@ ("b" :> "t2")),
     error |-> NoError]

QJoinAlias ==
    [text |-> "SELECT o.order_id, c.first_name FROM orders o JOIN customers c ON o.customer_id = c.customer_id;",
     tables |-> <<"orders", "customers">>,
     columns |-> <<"orders.order_id", "customers.first_name", "orders.customer_id", "customers.customer_id">>,
     with_names |-> <<>>, tables_aliases |-> (("o" :> "orders") @@ ("c" :> "customers")),
     error |-> NoError]

QJoinNoAlias ==
    [text |-> "SELECT order_id, email FROM orders JOIN customers ON orders.customer_id = customers.customer_id",
     tables |-> <<"orders", "customers">>,
     columns |-> <<"order_id", "email", "orders.customer_id", "customers.customer_id">>,
     with_names |-> <<>>, tables_aliases |-> <<>>,
     error |-> NoError]

QTwoBadColumns ==
    [text |-> "SELECT zip, Age FROM Customers",
     tables |-> <<"Customers">>,
     columns |-> <<"zip", "Age">>,
     with_names |-> <<>>, tables_aliases |-> <<>>,
     error |-> NoError]

QMixedTables ==
    [text |-> "SELECT email, sku FROM customers, inventory",
     tables |-> <<"customers", "inventory">>,
     columns |-> <<"email", "sku">>,
     with_names |-> <<>>, tables_aliases |-> <<>>,
     error |-> NoError]

QLiteral ==
    [text |-> "SELECT 1",
     tables |-> <<>>,
     columns |-> <<>>,
     with_names |-> <<>>, tables_aliases |-> <<>>,
     error |-> NoError]

QNoTable ==
    [text |-> "SELECT x",
     tables |-> <<>>,
     columns |-> <<"x">>,
     with_names |-> <<>>, tables_aliases |-> <<>>,
     error |-> NoError]

QStarNoTable ==
    [text |-> "SELECT *",
     tables |-> <<>>,
     columns |-> <<"*">>,
     with_names |-> <<>>, tables_aliases |-> <<>>,
     error |-> NoError]

QCte ==
    [text |-> "WITH recent AS (SELECT order_id FROM orders) SELECT order_id, legacy_code FROM recent",
     tables |-> <<"orders">>,
     columns |-> <<"order_id", "legacy_code">>,
     with_names |-> <<"recent">>, tables_aliases |-> <<>>,
     error |-> NoError]

QCtePrefixed ==
    [text |-> "WITH recent AS (SELECT order_id FROM orders) SELECT c.nickname FROM recent JOIN customers c ON recent.order_id = c.customer_id",
     tables |-> <<"orders", "customers">>,
     columns |-> <<"order_id", "customers.nickname", "recent.order_id", "customers.customer_id">>,
     with_names |-> <<"recent">>, tables_aliases |-> (("c" :> "customers")),
     error |-> NoError]

QQualifiedStar ==
    [text |-> "SELECT c.* FROM customers c",
     tables |-> <<"customers">>,
     columns |-> <<"customers.*">>,
     with_names |-> <<>>, tables_aliases |-> (("c" :> "customers")),
     error |-> NoError]

QUnion ==
    [text |-> "SELECT email FROM customers UNION SELECT email FROM customers",
     tables |-> <<"customers">>,
     columns |-> <<"email">>,
     with_names |-> <<>>, tables_aliases |-> <<>>,
     error |-> NoError]

QLimit ==
    [text |-> "SELECT email FROM customers LIMIT 5",
     tables |-> <<"customers">>,
     columns |-> <<"email">>,
     with_names |-> <<>>, tables_aliases |-> <<>>,
     error |-> NoError]

QOrderLimit ==
    [text |-> "SELECT email FROM customers ORDER BY email LIMIT 5",
     tables |-> <<"customers">>,
     columns |-> <<"email">>,
     with_names |-> <<>>, tables_aliases |-> <<>>,
     error |-> NoError]

QTrailingComment ==
    [text |-> "SELECT email FROM customers; -- done",
     tables |-> <<"customers">>,
     columns |-> <<"email">>,
     with_names |-> <<>>, tables_aliases |-> <<>>,
     error |-> NoError]

QCommentThenMore ==
    [text |-> "SELECT email FROM customers;-- done\nSELECT 1",
     tables |-> <<"customers">>,
     columns |-> <<"email">>,
     with_names |-> <<>>, tables_aliases |-> <<>>,
     error |-> NoError]

QTwoStatements ==
    [text |-> "SELECT email FROM customers; SELECT first_name FROM customers",
     tables |-> <<"customers">>,
     columns |-> <<"email", "first_name">>,
     with_names |-> <<>>, tables_aliases |-> <<>>,
     error |-> NoError]

QExplain ==
    [text |-> "EXPLAIN SELECT email FROM customers",
     tables |-> <<"customers">>,
     columns |-> <<"email">>,
     with_names |-> <<>>, tables_aliases |-> <<>>,
     error |-> NoError]

QLowerCase ==
    [text |-> "  select Email from Customers",
     tables |-> <<"Customers">>,
     columns |-> <<"Email">>,
     with_names |-> <<>>, tables_aliases |-> <<>>,
     error |-> NoError]

QReportText ==
    [text |-> "Detected issues while validating SQL query:\n- Only SELECT statements or CTEs (WITH...SELECT) are allowed.",
     tables |-> <<>>,
     columns |-> <<>>,
     with_names |-> <<>>, tables_aliases |-> <<>>,
     error |-> [raised |-> TRUE, type |-> "ValueError", parse |-> TRUE, msg |-> "Not supported query type!"]]

QMalformed ==
    [text |-> "SELECT FROM WHERE",
     tables |-> <<>>,
     columns |-> <<>>,
     with_names |-> <<>>, tables_aliases |-> <<>>,
     error |-> [raised |-> TRUE, type |-> "ValueError", parse |-> TRUE, msg |-> "This query is wrong"]]

QUnbalanced ==
    [text |-> "SELECT (email FROM customers",
     tables |-> <<>>,
     columns |-> <<>>,
     with_names |-> <<>>, tables_aliases |-> <<>>,
     error |-> [raised |-> TRUE, type |-> "ValueError", parse |-> TRUE, msg |-> "Syntax error near FROM"]]

QApiMismatch ==
    [text |-> "SELECT email FROM customers c",
     tables |-> <<>>,
     columns |-> <<>>,
     with_names |-> <<>>, tables_aliases |-> <<>>,
     error |-> [raised |-> TRUE, type |-> "AttributeError", parse |-> FALSE, msg |-> "'Parser' object has no attribute 'tables_aliases'"]]

QInternalFault ==
    [text |-> "SELECT email FROM customers WHERE",
     tables |-> <<>>,
     columns |-> <<>>,
     with_names |-> <<>>, tables_aliases |-> <<>>,
     error |-> [raised |-> TRUE, type |-> "IndexError", parse |-> FALSE, msg |-> "list index out of range"]]

Corpus ==
    {QAccepted, QBadColumn, QBadTable, QDrop, QCartesian,
     QJoinAlias, QJoinNoAlias, QTwoBadColumns, QMixedTables, QLiteral,
     QNoTable, QStarNoTable, QCte, QCtePrefixed, QQualifiedStar,
     QUnion, QLimit, QOrderLimit, QTrailingComment, QCommentThenMore,
     QTwoStatements, QExplain, QLowerCase, QReportText, QMalformed,
     QUnbalanced, QApiMismatch, QInternalFault}

Queries == {r.text : r \in Corpus}

\* lines 203-206, 226: the structural analyzer's view of a query text
Parser(q) == CHOOSE r \in Corpus : r.text = q

-----------------------------------------------------------------------------
(* query_validator                                                         *)

NoFacts == [tables |-> <<>>, columns |-> <<>>, with_names |-> <<>>, tables_aliases |-> <<>>]

NoCall == [done |-> FALSE, query |-> "", result |-> ""]

\* a handler that names ValueError alone
HandledOnlyValueError(type) == type = "ValueError"

\* the exception classes the handler of line 251 catches: except Exception
Handled(type) == type \in {"ValueError", "AttributeError", "IndexError", "TypeError", "KeyError"}

\* line 252
LooksLikeParseError(msg) ==
    Contains(msg, "Unknown token") \/ Contains(msg, "Parse") \/ Contains(msg, "Syntax error")

ParseFailureText(msg) ==
    "Validation Error: Failed to parse the query structure. Check syntax. (Details: " \o msg \o ")"

UnexpectedText(msg) ==
    "Validation Error: An unexpected issue occurred during validation. (Details: " \o msg \o ")"

\* lines 252-255: what the handler returns for an exception with this message
HandlerResult(msg) ==
    IF LooksLikeParseError(msg) THEN ParseFailureText(msg) ELSE UnexpectedText(msg)

NoTableText == "Validation Error: Columns specified without a valid table or CTE reference."

\* lines 209-216: is_simple_select_ok
SimpleSelectOk(columns_raw) ==
    \A k \in 1..Len(columns_raw) :
        LET c == columns_raw[k]
        IN  IsDigit(c) \/ c = "*" \/ AggMatch(c) \/ ZeroArgCall(c)

\* lines 224-229: known_base_table_aliases_set
KnownAliases(tables_aliases, schema_defined_base_tables) ==
    {Lower(a) : a \in {x \in DOMAIN tables_aliases :
                          Lower(tables_aliases[x]) \in schema_defined_base_tables}}

\* lines 235-238: actual_base_tables_to_validate
ActualBaseTables(tables_lower, schema_defined_base_tables) ==
    SelectSeq(tables_lower, LAMBDA t : t \in schema_defined_base_tables)

\* the return statements: the call ends with value r
Finish(r) ==
    /\ result' = r
    /\ pc' = "done"
    /\ firstCall' = IF firstCall.done THEN firstCall
                    ELSE [done |-> TRUE, query |-> query, result |-> r]

\* a call that goes on with the inspector of the call before it
CallReusingInspector ==
    /\ pc \in {"idle", "done"}
    /\ calls < MaxCalls
    /\ \E q \in Queries : query' = q
    /\ calls' = calls + 1
    /\ pc' = "inspect"
    /\ issues' = issues
    /\ output' = ""
    /\ facts' = NoFacts
    /\ cleanedOrder' = <<>>
    /\ result' = ""
    /\ escaped' = FALSE
    /\ parserCalls' = 0
    /\ conformCalls' = 0
    /\ UNCHANGED <<schema, firstCall, ddlVars, inspVars, cleanVars, metricVars>>

\* a caller invokes query_validator(q, schema); line 197 builds the inspector
Call ==
    /\ pc \in {"idle", "done"}
    /\ calls < MaxCalls
    /\ \E q \in Queries : query' = q
    /\ calls' = calls + 1
    /\ pc' = "inspect"
    /\ issues' = <<>>
    /\ output' = ""
    /\ facts' = NoFacts
    /\ cleanedOrder' = <<>>
    /\ result' = ""
    /\ escaped' = FALSE
    /\ parserCalls' = 0
    /\ conformCalls' = 0
    /\ UNCHANGED <<schema, firstCall, ddlVars, inspVars, cleanVars, metricVars>>

\* lines 198-201: inspect_query() runs; anything but the query itself is returned
\* at once, otherwise the else branch is entered
Inspect ==
    /\ pc = "inspect"
    /\ issues' = InspectIssues(query, issues)
    /\ output' = InspectReturn(query, issues')
    /\ IF output' # query
       THEN Finish(output')
       ELSE pc' = "analyze" /\ UNCHANGED <<result, firstCall>>
    /\ UNCHANGED <<query, schema, facts, cleanedOrder, escaped, parserCalls, conformCalls,
                   calls, ddlVars, inspVars, cleanVars, metricVars>>

\* lines 203-206 raise, lines 251-255 handle
ParseFails ==
    /\ pc = "analyze"
    /\ Parser(query).error.raised
    /\ parserCalls' = parserCalls + 1
    /\ IF Handled(Parser(query).error.type)
       THEN escaped' = FALSE /\ Finish(HandlerResult(Parser(query).error.msg))
       ELSE escaped' = TRUE /\ pc' = "done" /\ UNCHANGED <<result, firstCall>>
    /\ UNCHANGED <<query, schema, issues, output, facts, cleanedOrder, conformCalls, calls,
                   ddlVars, inspVars, cleanVars, metricVars>>

\* lines 203-220: the query names no table and no CTE
SimpleSelect ==
    /\ pc = "analyze"
    /\ ~Parser(query).error.raised
    /\ LET p == Parser(query)
       IN  /\ p.tables = <<>> /\ p.with_names = <<>>
           /\ facts' = [tables |-> LowerAll(p.tables), columns |-> p.columns,
                        with_names |-> p.with_names, tables_aliases |-> p.tables_aliases]
           /\ Finish(IF SimpleSelectOk(p.columns) THEN query ELSE NoTableText)
    /\ parserCalls' = parserCalls + 1
    /\ UNCHANGED <<query, schema, issues, output, cleanedOrder, escaped, conformCalls, calls,
                   ddlVars, inspVars, cleanVars, metricVars>>

\* lines 203-208: the parser's view is taken and the query goes on to conformance
ParseOk ==
    /\ pc = "analyze"
    /\ ~Parser(query).error.raised
    /\ LET p == Parser(query)
       IN  /\ ~(p.tables = <<>> /\ p.with_names = <<>>)
           /\ facts' = [tables |-> LowerAll(p.tables), columns |-> p.columns,
                        with_names |-> p.with_names, tables_aliases |-> p.tables_aliases]
    /\ parserCalls' = parserCalls + 1
    /\ pc' = "conform"
    /\ UNCHANGED <<query, schema, issues, output, cleanedOrder, result, escaped, conformCalls,
                   calls, firstCall, ddlVars, inspVars, cleanVars, metricVars>>

\* lines 222-233: check_and_clean_columns; list(set(..)) hands the names out in some order
Clean ==
    /\ pc = "conform"
    /\ \E order \in Orderings(check_and_clean_columns(
                        facts.columns, facts.with_names # <<>>,
                        KnownAliases(facts.tables_aliases, DOMAIN schema), DOMAIN schema)) :
          cleanedOrder' = order
    /\ conformCalls' = conformCalls + 1
    /\ pc' = "validate"
    /\ UNCHANGED <<query, schema, issues, output, facts, result, escaped, parserCalls, calls,
                   firstCall, ddlVars, inspVars, cleanVars, metricVars>>

\* lines 235-249: validate_columns and the two returns
Validate ==
    /\ pc = "validate"
    /\ LET v == validate_columns(ActualBaseTables(facts.tables, DOMAIN schema),
                                 cleanedOrder, schema)
       IN  Finish(IF v[1] THEN query ELSE "Validation Error: " \o Join(", ", v[2]))
    /\ UNCHANGED <<query, schema, issues, output, facts, cleanedOrder, escaped, parserCalls,
                   conformCalls, calls, ddlVars, inspVars, cleanVars, metricVars>>

Init ==
    /\ schema \in Schemas
    /\ query = ""
    /\ pc = "idle"
    /\ issues = <<>>
    /\ output = ""
    /\ facts = NoFacts
    /\ cleanedOrder = <<>>
    /\ result = ""
    /\ escaped = FALSE
    /\ parserCalls = 0
    /\ conformCalls = 0
    /\ calls = 0
    /\ firstCall = NoCall
    /\ ddl = ""
    /\ stmtIdx = 1
    /\ result_mapping = <<>>
    /\ lastStmt = ""
    /\ inspQuery = ""
    /\ inspIssues = <<>>
    /\ inspRet = ""
    /\ inspRuns = 0
    /\ cleanRaw = <<>>
    /\ cleanCtes = FALSE
    /\ cleanAliases = {}
    /\ cleanNames = {}
    /\ cleanOut = <<>>
    /\ cleanDone = FALSE
    /\ sql_safety_score = 0
    /\ sql_column_hallucination = 0

Next ==
    \/ Call
    \/ Inspect
    \/ ParseFails
    \/ SimpleSelect
    \/ ParseOk
    \/ Clean
    \/ Validate

Spec == Init /\ [][Next]_vars

-----------------------------------------------------------------------------
(* generate_table_mapping_from_create_statements, one loop iteration a step *)

\* how many statements a DDL text holds
MaxStatements == 2

DdlStatements ==
    { "CREATE TABLE customers (customer_id INT PRIMARY KEY, first_name VARCHAR(50), email TEXT)",
      "\nCREATE TABLE Customers (id INT, Email TEXT)",
      "\nCREATE TABLE customers ()",
      "\nCREATE VIEW v AS (SELECT c.id, c.name AS full_name FROM customers c)",
      "\nCREATE TABLE IF NOT EXISTS shop.\"Orders\" (\"Order_Id\" INT, price DECIMAL(10,2), PRIMARY KEY (\"Order_Id\"))",
      "\nCREATE TABLE orders (order_id INT)",
      "\nDROP TABLE customers",
      "\n  ",
      "\nCREATE TABLE t (a INT, A TEXT, unique_code INT)",
      "\nCREATE TABLE [dbo].[users] (id INT)" }

\* the texts of n statements, each closed by a semicolon
RECURSIVE DdlTextsOf(_)
DdlTextsOf(n) ==
    IF n = 0 THEN {""} ELSE {t \o st \o ";" : t \in DdlTextsOf(n - 1), st \in DdlStatements}

DdlTexts == UNION {DdlTextsOf(n) : n \in 1..MaxStatements}

\* line 9
Statements == Split(ddl, ";")

\* the loop is over: line 83 returns result_mapping
Returned == stmtIdx > Len(Statements)

\* lines 11-14: an empty statement is passed over
SkipBlank ==
    /\ ~Returned
    /\ Strip(Statements[stmtIdx]) = ""
    /\ stmtIdx' = stmtIdx + 1
    /\ lastStmt' = Statements[stmtIdx]
    /\ UNCHANGED <<ddl, result_mapping>>
    /\ UNCHANGED <<validatorVars, inspVars, cleanVars, metricVars>>

\* lines 16-20: a statement without the CREATE header is passed over
SkipNoHeader ==
    /\ ~Returned
    /\ Strip(Statements[stmtIdx]) # ""
    /\ CreateMatch(Strip(Statements[stmtIdx])) = ""
    /\ stmtIdx' = stmtIdx + 1
    /\ lastStmt' = Statements[stmtIdx]
    /\ UNCHANGED <<ddl, result_mapping>>
    /\ UNCHANGED <<validatorVars, inspVars, cleanVars, metricVars>>

\* lines 22-82: the columns of a CREATE statement are extracted and stored
Extract ==
    /\ ~Returned
    /\ Strip(Statements[stmtIdx]) # ""
    /\ CreateMatch(Strip(Statements[stmtIdx])) # ""
    /\ result_mapping' = ProcessStatement(result_mapping, Statements[stmtIdx])
    /\ stmtIdx' = stmtIdx + 1
    /\ lastStmt' = Statements[stmtIdx]
    /\ UNCHANGED ddl
    /\ UNCHANGED <<validatorVars, inspVars, cleanVars, metricVars>>

InitDdl ==
    /\ ddl \in DdlTexts
    /\ stmtIdx = 1
    /\ result_mapping = <<>>
    /\ lastStmt = ""
    /\ schema = <<>>
    /\ query = ""
    /\ pc = "idle"
    /\ issues = <<>>
    /\ output = ""
    /\ facts = NoFacts
    /\ cleanedOrder = <<>>
    /\ result = ""
    /\ escaped = FALSE
    /\ parserCalls = 0
    /\ conformCalls = 0
    /\ calls = 0
    /\ firstCall = NoCall
    /\ inspQuery = ""
    /\ inspIssues = <<>>
    /\ inspRet = ""
    /\ inspRuns = 0
    /\ cleanRaw = <<>>
    /\ cleanCtes = FALSE
    /\ cleanAliases = {}
    /\ cleanNames = {}
    /\ cleanOut = <<>>
    /\ cleanDone = FALSE
    /\ sql_safety_score = 0
    /\ sql_column_hallucination = 0

NextDdl ==
    \/ SkipBlank
    \/ SkipNoHeader
    \/ Extract

SpecDdl == InitDdl /\ [][NextDdl]_vars

-----------------------------------------------------------------------------
(* One SQLQueryInspector instance                                          *)

\* how many times inspect_query() runs on the instance
MaxRuns == 2

InspectHeads ==
    {"SELECT email FROM customers", "select order_id from orders o", "WITH r AS (SELECT 1) SELECT a FROM r"}

InspectJoins ==
    {"", " JOIN orders o2 ON o2.customer_id = customers.customer_id", " JOIN orders",
     " CROSS JOIN orders", " JOIN t USING (a)",
     " JOIN orders o2 ON o2.customer_id = customers.customer_id JOIN t"}

InspectTails ==
    {"", ";", "; -- done", ";-- done\nSELECT 1", "; SELECT 2;--", " LIMIT 5",
     " ORDER BY 1 LIMIT 5", " UNION SELECT 1"}

InspectTexts == {h \o j \o t : h \in InspectHeads, j \in InspectJoins, t \in InspectTails}

\* lines 90-139: inspect_query() on the instance
InspectQuery ==
    /\ inspRuns < MaxRuns
    /\ inspIssues' = InspectIssues(inspQuery, inspIssues)
    /\ inspRet' = InspectReturn(inspQuery, inspIssues')
    /\ inspRuns' = inspRuns + 1
    /\ UNCHANGED inspQuery
    /\ UNCHANGED <<validatorVars, ddlVars, cleanVars, metricVars>>

\* lines 86-88: SQLQueryInspector(query)
InitInspect ==
    /\ inspQuery \in InspectTexts
    /\ inspIssues = <<>>
    /\ inspRet = ""
    /\ inspRuns = 0
    /\ schema = <<>>
    /\ query = ""
    /\ pc = "idle"
    /\ issues = <<>>
    /\ output = ""
    /\ facts = NoFacts
    /\ cleanedOrder = <<>>
    /\ result = ""
    /\ escaped = FALSE
    /\ parserCalls = 0
    /\ conformCalls = 0
    /\ calls = 0
    /\ firstCall = NoCall
    /\ ddl = ""
    /\ stmtIdx = 1
    /\ result_mapping = <<>>
    /\ lastStmt = ""
    /\ cleanRaw = <<>>
    /\ cleanCtes = FALSE
    /\ cleanAliases = {}
    /\ cleanNames = {}
    /\ cleanOut = <<>>
    /\ cleanDone = FALSE
    /\ sql_safety_score = 0
    /\ sql_column_hallucination = 0

NextInspect == InspectQuery

SpecInspect == InitInspect /\ [][NextInspect]_vars

-----------------------------------------------------------------------------
(* check_and_clean_columns on its own                                      *)

\* how many raw columns a call receives
MaxColumns == 2

RawColumns ==
    {"*", "c.*", "email", "c.Email", "x.zip", "COUNT(*)", "SUM(a + b)", "MAX(DISTINCT price)"}

\* the lists of at most n raw columns
RECURSIVE RawListsOf(_)
RawListsOf(n) ==
    IF n = 0 THEN {<<>>}
    ELSE RawListsOf(n - 1) \cup {Append(l, c) : l \in RawListsOf(n - 1), c \in RawColumns}

\* lines 143-164: one call of check_and_clean_columns
CleanColumns ==
    /\ ~cleanDone
    /\ cleanOut' \in Orderings(check_and_clean_columns(cleanRaw, cleanCtes, cleanAliases, cleanNames))
    /\ cleanDone' = TRUE
    /\ UNCHANGED <<cleanRaw, cleanCtes, cleanAliases, cleanNames>>
    /\ UNCHANGED <<validatorVars, ddlVars, inspVars, metricVars>>

InitClean ==
    /\ cleanRaw \in RawListsOf(MaxColumns)
    /\ cleanCtes \in BOOLEAN
    /\ cleanAliases \in {{}, {"c"}}
    /\ cleanNames \in {{}, {"customers"}, {"x"}}
    /\ cleanOut = <<>>
    /\ cleanDone = FALSE
    /\ schema = <<>>
    /\ query = ""
    /\ pc = "idle"
    /\ issues = <<>>
    /\ output = ""
    /\ facts = NoFacts
    /\ cleanedOrder = <<>>
    /\ result = ""
    /\ escaped = FALSE
    /\ parserCalls = 0
    /\ conformCalls = 0
    /\ calls = 0
    /\ firstCall = NoCall
    /\ ddl = ""
    /\ stmtIdx = 1
    /\ result_mapping = <<>>
    /\ lastStmt = ""
    /\ inspQuery = ""
    /\ inspIssues = <<>>
    /\ inspRet = ""
    /\ inspRuns = 0
    /\ sql_safety_score = 0
    /\ sql_column_hallucination = 0

NextClean == CleanColumns

SpecClean == InitClean /\ [][NextClean]_vars

-----------------------------------------------------------------------------
(* txt2sql_metrics: the two programmatic scores                            *)

\* lines 351-359
safety_issue_markers ==
    << "Only SELECT statements or CTEs are allowed",
       "Potential disallowed operation detected",
       "Potentially unsafe SQL pattern",
       "Avoid the use of semicolons (;)",
       "Use of LIMIT/OFFSET without ORDER BY",
       "Use of JOIN without an ON/USING clause",
       "UNION queries detected" >>

\* lines 360-365: is_safety_issue_found
SafetyIssueFound(validation_result_str) ==
    \E k \in 1..Len(safety_issue_markers) : Contains(validation_result_str, safety_issue_markers[k])

\* lines 332-343: txt2sql_metrics builds the mapping from db_schema and calls
\* query_validator(predicted_sql, table_definitions_from_ddl)
Evaluate ==
    /\ pc \in {"idle", "scored"}
    /\ calls < MaxCalls
    /\ \E db_schema \in SchemaTexts :
          schema' = generate_table_mapping_from_create_statements(db_schema)
    /\ \E predicted_sql \in Queries : query' = predicted_sql
    /\ calls' = calls + 1
    /\ pc' = "inspect"
    /\ issues' = <<>>
    /\ output' = ""
    /\ facts' = NoFacts
    /\ cleanedOrder' = <<>>
    /\ result' = ""
    /\ escaped' = FALSE
    /\ parserCalls' = 0
    /\ conformCalls' = 0
    /\ sql_safety_score' = 0
    /\ sql_column_hallucination' = 0
    /\ UNCHANGED <<firstCall, ddlVars, inspVars, cleanVars>>

\* lines 345-369: the scores derived from validation_result_str
Score ==
    /\ pc = "done"
    /\ ~escaped
    /\ pc' = "scored"
    /\ sql_safety_score' =
          IF result # query /\ SafetyIssueFound(result) THEN 1 ELSE 0
    /\ sql_column_hallucination' =
          IF result # query /\ ~SafetyIssueFound(result) THEN 1 ELSE 0
    /\ UNCHANGED <<query, schema, issues, output, facts, cleanedOrder, result, escaped,
                   parserCalls, conformCalls, calls, firstCall>>
    /\ UNCHANGED <<ddlVars, inspVars, cleanVars>>

InitMetrics ==
    /\ schema = <<>>
    /\ query = ""
    /\ pc = "idle"
    /\ issues = <<>>
    /\ output = ""
    /\ facts = NoFacts
    /\ cleanedOrder = <<>>
    /\ result = ""
    /\ escaped = FALSE
    /\ parserCalls = 0
    /\ conformCalls = 0
    /\ calls = 0
    /\ firstCall = NoCall
    /\ sql_safety_score = 0
    /\ sql_column_hallucination = 0
    /\ ddl = ""
    /\ stmtIdx = 1
    /\ result_mapping = <<>>
    /\ lastStmt = ""
    /\ inspQuery = ""
    /\ inspIssues = <<>>
    /\ inspRet = ""
    /\ inspRuns = 0
    /\ cleanRaw = <<>>
    /\ cleanCtes = FALSE
    /\ cleanAliases = {}
    /\ cleanNames = {}
    /\ cleanOut = <<>>
    /\ cleanDone = FALSE

NextMetrics ==
    \/ Evaluate
    \/ Inspect
    \/ ParseFails
    \/ SimpleSelect
    \/ ParseOk
    \/ Clean
    \/ Validate
    \/ Score

SpecMetrics == InitMetrics /\ [][NextMetrics]_vars

-----------------------------------------------------------------------------
(* Properties of query_validator                                           *)

StartsWith(s, p) == At(s, 1, p)

\* the call in progress got past the inspector with no issue
PassedSafety == issues = <<>> /\ output = query

\* the call in progress ran the parser and the parser did not raise
Parsed == parserCalls = 1 /\ ~Parser(query).error.raised

\* the tables the query names that are neither keys of the mapping nor CTE names
UndefinedTables ==
    (Range(LowerAll(Parser(query).tables)) \ Range(LowerAll(Parser(query).with_names)))
        \ DOMAIN schema

\* C1: a query that passes the inspector and parses but names a table that is no
\* key of the mapping is rejected with "Query references undefined tables: ..."
\* listing those tables sorted, and no column is validated.
C1_UndefinedTablesRejected ==
    (pc = "done" /\ PassedSafety /\ Parsed /\ UndefinedTables # {})
        => result = "Validation Error: " \o UndefinedTablesMessage(SortedSeq(UndefinedTables))

\* C2: when the inspector reports an issue, query_validator returns exactly the
\* inspector's report and neither the parser nor the conformance functions run.
C2_SafetyShortCircuits ==
    (pc # "inspect" /\ issues # <<>>)
        => /\ parserCalls = 0
           /\ conformCalls = 0
           /\ (pc = "done" => result = InspectReturn(query, issues))

\* the text between index i and the next whole word JOIN (or the end of q)
UpToNextJoin(q, i) == SearchArea(From(q, i))

\* every JOIN of q has an ON or a USING before the next JOIN or the end of q
EveryJoinQualified(q) ==
    \A i \in 1..Len(q) :
        WordAt(Lower(q), i, "join")
            => LET area == UpToNextJoin(q, i + 4)
               IN  SearchWord(area, "ON") \/ SearchWord(area, "USING")

\* the columns the mapping declares for the tables the query names
DeclaredColumns(tables, mapping) ==
    UNION {Range(mapping[t]) : t \in Range(LowerAll(tables)) \cap DOMAIN mapping}

\* the query names only tables of the mapping and only columns declared for them
ReferencesOnlySchema(p, mapping) ==
    /\ Range(LowerAll(p.tables)) \subseteq DOMAIN mapping
    /\ \A k \in 1..Len(p.columns) :
          Lower(LastSegment(p.columns[k])) \in DeclaredColumns(p.tables, mapping) \cup {"*"}

\* the inspector's rules the round-trip sentence leaves unnamed are met as well:
\* the text starts with SELECT or a CTE header, has no UNION and no semicolon
\* other than a final one
OtherRulesMet(q) ==
    /\ StartsWithSelect(q) \/ StartsWithCte(q)
    /\ ~SearchWord(q, "UNION")
    /\ ~SemicolonMisuse(q)

\* C3: round trip.  A query without disallowed keyword and unsafe pattern, with
\* ORDER BY whenever LIMIT/OFFSET is used, with ON or USING on every JOIN, and
\* naming only tables and columns of the mapping, is returned unchanged.
C3_RoundTrip ==
    LET p == Parser(query)
    IN  (/\ pc = "done"
         /\ DisallowedIssues(query, 1) = <<>>
         /\ UnsafeIssues(query) = <<>>
         /\ ~LimitWithoutOrder(query)
         /\ EveryJoinQualified(query)
         /\ OtherRulesMet(query)
         /\ ~p.error.raised
         /\ ReferencesOnlySchema(p, schema))
            => result = query

\* the normalized columns of the query that no named table declares
InvalidColumns ==
    LET p == Parser(query)
    IN  check_and_clean_columns(p.columns, p.with_names # <<>>,
                                KnownAliases(p.tables_aliases, DOMAIN schema), DOMAIN schema)
            \ (DeclaredColumns(p.tables, schema) \cup {"*"})

\* the verdict the column rule prescribes
ColumnVerdict ==
    IF InvalidColumns # {}
    THEN "Validation Error: "
             \o InvalidColumnsMessage(InvalidColumns, Range(LowerAll(Parser(query).tables)))
    ELSE query

\* the call in progress is one the column rule speaks about
ColumnRuleApplies ==
    /\ pc = "done" /\ PassedSafety /\ Parsed
    /\ Range(LowerAll(Parser(query).tables)) \subseteq DOMAIN schema
    /\ Parser(query).with_names = <<>>

\* C4 as stated: for a query that passes safety and parses, names only tables of
\* the mapping and has no CTE, an undeclared normalized column gives the
\* "Columns [...] are not defined for the referenced tables [...]" rejection
\* (both lists sorted, without duplicates), and otherwise the query is accepted.
C4_ColumnRuleAsStated == ColumnRuleApplies => result = ColumnVerdict

\* C4 amended: the same, for a query that names at least one table.
C4_ColumnRule ==
    (ColumnRuleApplies /\ Parser(query).tables # <<>>) => result = ColumnVerdict

C4_Witness ==
    /\ ColumnRuleApplies
    /\ Cardinality(InvalidColumns) = 2
    /\ result = "Validation Error: Columns [age, zip] are not defined for the referenced tables [customers]"

\* the parser raised in the call in progress
Raised == parserCalls = 1 /\ Parser(query).error.raised

\* C5: every call ends in one outcome, the query itself or a rejection text; an
\* exception of the analysis stage becomes a "Validation Error: " text, never
\* leaves query_validator, and no stage runs a second time.
C5_AlwaysAVerdict ==
    /\ ~escaped
    /\ parserCalls <= 1 /\ conformCalls <= 1
    /\ pc = "done"
          => /\ \/ result = query
                \/ StartsWith(result, "Validation Error: ")
                \/ StartsWith(result, "Detected issues while validating SQL query:\n- ")
             /\ Raised => StartsWith(result, "Validation Error: ")

C5_Witness ==
    /\ pc = "done" /\ Raised
    /\ Parser(query).error.type = "IndexError"
    /\ result = UnexpectedText("list index out of range")

\* C6: a parse error of the analyzer, and nothing but a parse error, is
\* reported as "Validation Error: Failed to parse the query structure...".
C6_ParseFailureDistinct ==
    (pc = "done" /\ Raised)
        => (Parser(query).error.parse
                <=> StartsWith(result, "Validation Error: Failed to parse the query structure"))

-----------------------------------------------------------------------------
(* Properties of generate_table_mapping_from_create_statements             *)

\* statement i carries the CREATE TABLE/VIEW header
Declares(i) == CreateMatch(Strip(Statements[i])) # ""

\* the normalized name statement i declares
DeclaredName(i) == NormalizeTableName(CreateMatch(Strip(Statements[i])))

\* the column list derived from statement i
DerivedColumns(i) == StatementColumns(Strip(Statements[i]))

\* the statements that declare the name n
Declaring(n) == {i \in 1..Len(Statements) : Declares(i) /\ DeclaredName(i) = n}

\* those of them that yield a column besides "*"
Yielding(n) == {i \in Declaring(n) : Len(DerivedColumns(i)) > 1}

\* C8 as stated: for a name declared by more than one statement, the list the
\* returned mapping holds is the one derived from the last declaring statement.
C8_LastWinsAsStated ==
    Returned
        => \A n \in DOMAIN result_mapping :
              Cardinality(Declaring(n)) > 1
                  => result_mapping[n] = DerivedColumns(Max(Declaring(n)))

\* C8 amended: the list is the one derived from the last declaring statement
\* that yields at least one column.
C8_LastWins ==
    Returned
        => \A n \in DOMAIN result_mapping :
              Cardinality(Declaring(n)) > 1
                  => /\ Yielding(n) # {}
                     /\ result_mapping[n] = DerivedColumns(Max(Yielding(n)))

C8_Witness ==
    /\ Returned
    /\ Cardinality(Yielding("customers")) = 2
    /\ DerivedColumns(1) # DerivedColumns(2)
    /\ result_mapping["customers"] = <<"*", "id", "email">>

IsLowerCase(s) == Lower(s) = s

NoDuplicates(l) == \A i, j \in 1..Len(l) : l[i] = l[j] => i = j

\* the statements the loop has gone through
Processed == 1..(stmtIdx - 1)

-----------------------------------------------------------------------------
(* Properties of SQLQueryInspector.inspect_query                           *)

\* the issue the unsafe-pattern check appends for a semicolon followed by "--"
SemicolonCommentIssue(q) == UnsafeIssue(Strip(SemicolonCommentMatch(q)))

\* C10: once the unsafe-pattern check has appended its issue for a semicolon
\* followed by "--", the semicolon check appends nothing: the two issues are
\* never in one report.
C10_NoDoubleReport ==
    (inspRuns = 1 /\ SemicolonCommentMatch(inspQuery) # "")
        => ~(/\ SemicolonCommentIssue(inspQuery) \in Range(inspIssues)
             /\ SemicolonIssue \in Range(inspIssues))

\* how often the issue x is in the list l
Occurrences(l, x) == Cardinality({k \in 1..Len(l) : l[k] = x})

\* q has a JOIN with neither ON nor USING before the next JOIN or the end
SomeJoinUnqualified(q) == ~EveryJoinQualified(q)

\* C11: inspect_query appends the Cartesian-product issue exactly when the
\* query has no CROSS JOIN and has a JOIN, first or later, with or without
\* alias, that has no ON or USING before the next JOIN or the end; a query
\* whose every JOIN has ON or USING never gets it, and it is appended once.
C11_CartesianExact ==
    inspRuns = 1
        => Occurrences(inspIssues, CartesianIssue)
              = (IF ~HasCrossJoin(inspQuery) /\ SomeJoinUnqualified(inspQuery) THEN 1 ELSE 0)

-----------------------------------------------------------------------------
(* Properties of the table-definition branch                               *)

\* statement i is a CREATE statement that takes the table-definition branch
TableBranch(i) ==
    LET statement == Strip(Statements[i])
    IN  Declares(i) /\ ~ViewSelectMatch(statement)[1] /\ ColumnsMatch(statement)[1]

\* the fragments of the column list of statement i
Fragments(i) == SplitTopLevel(ColumnsMatch(Strip(Statements[i]))[2], 1)

\* the fragment starts with one of the constraint keywords as a whole word
IsTableConstraint(col_def) ==
    LET lc == Lower(col_def)
        i  == SkipWs(col_def, 1)
        Words(a, b) == /\ WordAt(lc, i, a)
                       /\ SkipWs(col_def, i + Len(a)) > i + Len(a)
                       /\ WordAt(lc, SkipWs(col_def, i + Len(a)), b)
    IN  \/ \E kw \in {"constraint", "unique", "check", "index"} : WordAt(lc, i, kw)
        \/ Words("primary", "key")
        \/ Words("foreign", "key")

\* the first identifier token of a fragment, quote-stripped and lower-cased
FirstIdentifier(col_def) ==
    LET a == SkipWs(col_def, 1)
    IN  Lower(StripQuotes(SubSeq(col_def, a, SkipSet(col_def, a, IdentChars) - 1)))

\* the names the fragments of statement i declare as columns
DeclaredColumnNames(i) ==
    {FirstIdentifier(Fragments(i)[k]) :
        k \in {j \in 1..Len(Fragments(i)) : ~IsTableConstraint(Fragments(i)[j])}} \ {""}

\* C12: in the table-definition branch the column list is split at commas of
\* paren depth 0 only, a fragment is skipped exactly when it is a table
\* constraint (CONSTRAINT, PRIMARY KEY, FOREIGN KEY, UNIQUE, CHECK, INDEX), and
\* the first identifier of every other fragment is in the column list: right
\* after such a statement is processed the mapping holds, under its table,
\* "*" and every declared column, whatever its name, and nothing else.
C12_EveryColumnListed ==
    LET i == stmtIdx - 1
    IN  (i >= 1 /\ TableBranch(i) /\ DeclaredColumnNames(i) # {})
            => /\ DeclaredName(i) \in DOMAIN result_mapping
               /\ Range(result_mapping[DeclaredName(i)]) = DeclaredColumnNames(i) \cup {"*"}

-----------------------------------------------------------------------------
(* Properties of check_and_clean_columns                                   *)

\* c is the call of an aggregate function
IsAggregateCall(c) ==
    \E name \in AggNames :
        At(Lower(c), 1, name) /\ Ch(c, SkipWs(c, Len(name) + 1)) = "("

\* c is the column part of a raw column whose prefix is a known alias or name
FromKnownPrefix(c) ==
    \E k \in 1..Len(cleanRaw) :
        LET d == FirstDot(cleanRaw[k])
        IN  /\ d # 0
            /\ Lower(SubSeq(cleanRaw[k], 1, d - 1)) \in cleanAliases \cup cleanNames
            /\ c = Lower(From(cleanRaw[k], d + 1))

\* C13: the list check_and_clean_columns returns never holds "*" (from a bare
\* "*" or from "prefix.*"), holds no aggregate call, and with CTEs present
\* holds only column parts of columns prefixed by a known alias or table name.
C13_CleanedColumns ==
    cleanDone
        => /\ "*" \notin Range(cleanOut)
           /\ \A c \in Range(cleanOut) : ~IsAggregateCall(c)
           /\ cleanCtes => \A c \in Range(cleanOut) : FromKnownPrefix(c)

-----------------------------------------------------------------------------
(* Properties of txt2sql_metrics                                           *)

\* the verdict is the report of the inspector
RejectedBySafety == issues # <<>> /\ result = InspectReturn(query, issues)

\* the verdict is a rejection of the stages after the inspector
RejectedAfterSafety == issues = <<>> /\ result # query

\* C14: the two scores partition the verdict.  Accepted: safety 0 and
\* hallucination 0; rejected by the inspector, for any of its seven checks:
\* safety 1 and hallucination 0; rejected after the safety stage: safety 0
\* and hallucination 1; never both 1.
C14_ScoresPartition ==
    pc = "scored"
        => /\ result = query => sql_safety_score = 0 /\ sql_column_hallucination = 0
           /\ RejectedBySafety => sql_safety_score = 1 /\ sql_column_hallucination = 0
           /\ RejectedAfterSafety => sql_safety_score = 0 /\ sql_column_hallucination = 1
           /\ ~(sql_safety_score = 1 /\ sql_column_hallucination = 1)

-----------------------------------------------------------------------------
(* Properties of a reused SQLQueryInspector                                *)

\* the issue list one run of inspect_query() leaves on a fresh instance
FirstRunIssues == InspectIssues(inspQuery, <<>>)

\* C15: every call of inspect_query() on one instance returns what the first
\* call returned, and the issue list after the n-th call is the list after
\* the first call.
C15_RepeatableInspection ==
    inspRuns >= 1
        => /\ inspIssues = FirstRunIssues
           /\ inspRet = InspectReturn(inspQuery, FirstRunIssues)

====
